---------------------------- MODULE Spec2Model ----------------------------
(***************************************************************************)
(* Model of scripts/extra/green_ammonia.py: the add_green_ammonia hook of  *)
(* a PyPSA-Earth workflow and its helpers.                                 *)
(*                                                                         *)
(* Representation                                                          *)
(*  - a label (DataFrame index entry of a bus, link or store) is a         *)
(*    sequence of one-character strings, so that the f-string suffixes     *)
(*    and str.contains are computed on characters;                         *)
(*  - a DataFrame is the sequence of its rows in index (insertion) order;  *)
(*  - a Python dict is a function whose DOMAIN is the set of keys present; *)
(*  - a Python value that may be None is a sequence of length <= 1:        *)
(*    None is << >>, the value v is <<v>>;                                 *)
(*  - latitudes and longitudes are integers in tenths of a degree, and     *)
(*    distances are compared by their squares (np.linalg.norm is the       *)
(*    monotone square root of that sum);                                   *)
(*  - the numeric attribute values the hook only passes through            *)
(*    (efficiency, costs, lifetimes, inf) are kept as their literals.      *)
(***************************************************************************)
EXTENDS Integers, Sequences, FiniteSets, TLC

VARIABLES
    network,   \* the pypsa.Network: [buses, links, stores, carriers]
    config,    \* the configuration mapping of the last invocation
    outcome,   \* how the last invocation ended
    base_bus,  \* the label _closest_bus returned in the last invocation
    log,       \* the network.add calls of the last invocation, in order
    pre,       \* the network as it was when the last invocation began
    calls,     \* number of invocations so far
    hist,      \* [clean: the initial network held no derived entity,
               \*  nosub: no enabled invocation so far used bus_substring,
               \*  ok: every invocation so far returned normally]
    query      \* the arguments of the last direct _closest_bus call

vars == <<network, config, outcome, base_bus, log, pre, calls, hist, query>>

-----------------------------------------------------------------------------
(* Bounds of the model *)

\* Invocations of the hook in one behaviour.
MaxCalls == 2

\* Buses of a network handed directly to _closest_bus.
MaxBuses == 3

-----------------------------------------------------------------------------
(* Python values *)

None == << >>

Some(v) == <<v>>

EmptyDict == [k \in {} |-> TRUE]

\* dict.get(key, default)
Get(d, key, default) == IF key \in DOMAIN d THEN d[key] ELSE default

\* dict.get(key): None when the key is absent
GetOpt(d, key) == IF key \in DOMAIN d THEN Some(d[key]) ELSE None

\* sub in s, for strings as character sequences
Contains(s, sub) ==
    \E i \in 0..(Len(s) - Len(sub)) : SubSeq(s, i + 1, i + Len(sub)) = sub

Labels(frame) == {frame[i].label : i \in 1..Len(frame)}

\* DataFrame.loc[label] for a label of the index
Loc(frame, label) == frame[CHOOSE i \in 1..Len(frame) : frame[i].label = label]

CarrierNames(net) == {net.carriers[i] : i \in 1..Len(net.carriers)}

-----------------------------------------------------------------------------
(* The label suffixes of the f-strings *)

SuffixNH3 == <<"-", "N", "H", "3">>

SuffixElectrolyser ==
    <<"-", "N", "H", "3", "-", "e", "l", "e", "c", "t", "r", "o", "l", "y", "s", "e", "r">>

SuffixStore == <<"-", "s", "t", "o", "r", "e">>

SuffixCCGT == <<"-", "N", "H", "3", "-", "C", "C", "G", "T">>

-----------------------------------------------------------------------------
(* The running state of one invocation: the network, the log of the        *)
(* network.add calls made, and the exception raised, if any.               *)

Running(net) == [network |-> net, log |-> << >>, raised |-> "none"]

Raise(st, exc) == [st EXCEPT !.raised = exc]

\* network.add(class_name, name, **kwargs): one row appended to the
\* component's DataFrame.
NetworkAdd(st, class, row) ==
    LET entry == [class |-> class, label |-> row.label, carrier |-> row.carrier]
    IN  CASE class = "Bus" ->
               [st EXCEPT !.network.buses = Append(@, row), !.log = Append(@, entry)]
          [] class = "Link" ->
               [st EXCEPT !.network.links = Append(@, row), !.log = Append(@, entry)]
          [] class = "Store" ->
               [st EXCEPT !.network.stores = Append(@, row), !.log = Append(@, entry)]
          [] class = "Carrier" ->
               [st EXCEPT !.network.carriers = Append(@, row.carrier),
                          !.log = Append(@, entry)]

-----------------------------------------------------------------------------
(* _get_cfg: config.get("custom", {}).get("green_ammonia", {}).  The second *)
(* .get is an attribute lookup on whatever the first returned, and raises   *)
(* AttributeError on None.                                                  *)

_get_cfg(cfg) ==
    LET custom == Get(cfg, "custom", Some(EmptyDict))
    IN  IF custom = None
        THEN [raised |-> "AttributeError", value |-> None]
        ELSE [raised |-> "none",
              value |-> Get(custom[1], "green_ammonia", Some(EmptyDict))]

\* Variant: the carrier is added whether or not its name is in the index.
_ensure_carrier_unguarded(st, name) ==
    NetworkAdd(st, "Carrier", [label |-> << >>, carrier |-> name])

(* _ensure_carrier: add the carrier unless its name is in the index. *)

_ensure_carrier(st, name) ==
    IF name \in CarrierNames(st.network)
    THEN st
    ELSE NetworkAdd(st, "Carrier", [label |-> << >>, carrier |-> name])

-----------------------------------------------------------------------------
(* _closest_bus *)

\* Variant: the columns taken as ["x", "y"], longitude against latitude.
DistancesSwapped(candidates, latitude, longitude) ==
    [i \in 1..Len(candidates) |->
        (candidates[i].x - latitude) * (candidates[i].x - latitude)
      + (candidates[i].y - longitude) * (candidates[i].y - longitude)]

\* Squared norm of (y, x) - (latitude, longitude) for each candidate row.
Distances(candidates, latitude, longitude) ==
    [i \in 1..Len(candidates) |->
        (candidates[i].y - latitude) * (candidates[i].y - latitude)
      + (candidates[i].x - longitude) * (candidates[i].x - longitude)]

\* ndarray.argmin: a left-to-right scan that keeps the first minimum.
RECURSIVE ArgMinFrom(_, _, _)
ArgMinFrom(d, i, best) ==
    IF i > Len(d)
    THEN best
    ELSE ArgMinFrom(d, i + 1, IF d[i] < d[best] THEN i ELSE best)

\* Variant: a scan that keeps the last minimum.
RECURSIVE ArgMinLastFrom(_, _, _)
ArgMinLastFrom(d, i, best) ==
    IF i > Len(d)
    THEN best
    ELSE ArgMinLastFrom(d, i + 1, IF d[i] <= d[best] THEN i ELSE best)

ArgMinLast(d) == ArgMinLastFrom(d, 2, 1)

ArgMin(d) == ArgMinFrom(d, 2, 1)

\* candidates[candidates.index.str.contains(bus_substring)]
Narrow(candidates, bus_substring) ==
    SelectSeq(candidates, LAMBDA b : Contains(b.label, bus_substring))

\* Variant: the filter is never applied.
NarrowedIgnored(candidates, bus_substring) == candidates

\* The candidate frame after the optional narrowing (lines 58-61);
\* "if bus_substring:" is false for None and for the empty string.
Narrowed(candidates, bus_substring) ==
    IF bus_substring # None /\ bus_substring[1] # << >>
    THEN LET narrowed == Narrow(candidates, bus_substring[1])
         IN  IF narrowed # << >> THEN narrowed ELSE candidates
    ELSE candidates

\* Variant: a country without buses falls back to the whole bus frame.
_closest_bus_any(net, country_code, latitude, longitude, bus_substring) ==
    LET of_country == SelectSeq(net.buses, LAMBDA b : b.country = country_code)
        candidates == IF of_country = << >> THEN net.buses ELSE of_country
        chosen == Narrowed(candidates, bus_substring)
    IN  IF latitude = None \/ longitude = None
        THEN [raised |-> "none", label |-> Some(chosen[1].label)]
        ELSE [raised |-> "none",
              label |-> Some(chosen[ArgMin(Distances(chosen, latitude[1],
                                                     longitude[1]))].label)]

_closest_bus(net, country_code, latitude, longitude, bus_substring) ==
    LET candidates == SelectSeq(net.buses, LAMBDA b : b.country = country_code)
    IN  IF candidates = << >>
        THEN [raised |-> "ValueError", label |-> None]
        ELSE LET chosen == Narrowed(candidates, bus_substring)
             IN  IF latitude = None \/ longitude = None
                 THEN [raised |-> "none", label |-> Some(chosen[1].label)]
                 ELSE [raised |-> "none",
                       label |-> Some(chosen[ArgMin(Distances(chosen, latitude[1],
                                                              longitude[1]))].label)]

-----------------------------------------------------------------------------
(* The four guarded inserts.  A component configuration cfg is None or a   *)
(* dict; cfg.get is evaluated only when the keyword arguments of            *)
(* network.add are built, after the label guard, and raises AttributeError *)
(* on None.                                                                 *)

_add_bus(st, base, carrier) ==
    LET row == Loc(st.network.buses, base)
        label == base \o SuffixNH3
    IN  IF label \in Labels(st.network.buses)
        THEN [st |-> st, label |-> label]
        ELSE [st |-> NetworkAdd(st, "Bus",
                        [label |-> label, x |-> row.x, y |-> row.y,
                         country |-> row.country, carrier |-> carrier,
                         sub_network |-> row.sub_network]),
              label |-> label]

\* Variant: a link already present is overwritten with this call's values.
_add_electrolyser_upsert(st, base, nh3_bus, cfg, carrier_name) ==
    LET label == base \o SuffixElectrolyser
        row == [label |-> label, bus0 |-> base, bus1 |-> nh3_bus,
                carrier |-> carrier_name,
                efficiency |-> Get(cfg[1], "efficiency", "0.6"),
                capital_cost |-> Get(cfg[1], "capital_cost", "7.5e5"),
                marginal_cost |-> Get(cfg[1], "marginal_cost", "0.5"),
                lifetime |-> Get(cfg[1], "lifetime", "20"),
                p_nom_extendable |-> TRUE,
                p_nom_max |-> Get(cfg[1], "p_nom_max", "inf")]
    IN  IF cfg = None
        THEN Raise(st, "AttributeError")
        ELSE IF label \in Labels(st.network.links)
        THEN [st EXCEPT !.network.links =
                 [k \in 1..Len(@) |-> IF @[k].label = label THEN row ELSE @[k]]]
        ELSE NetworkAdd(st, "Link", row)

_add_electrolyser(st, base, nh3_bus, cfg, carrier_name) ==
    LET label == base \o SuffixElectrolyser
    IN  IF label \in Labels(st.network.links)
        THEN st
        ELSE IF cfg = None
        THEN Raise(st, "AttributeError")
        ELSE NetworkAdd(st, "Link",
                 [label |-> label, bus0 |-> base, bus1 |-> nh3_bus,
                  carrier |-> carrier_name,
                  efficiency |-> Get(cfg[1], "efficiency", "0.6"),
                  capital_cost |-> Get(cfg[1], "capital_cost", "7.5e5"),
                  marginal_cost |-> Get(cfg[1], "marginal_cost", "0.5"),
                  lifetime |-> Get(cfg[1], "lifetime", "20"),
                  p_nom_extendable |-> TRUE,
                  p_nom_max |-> Get(cfg[1], "p_nom_max", "inf")])

_add_storage(st, nh3_bus, cfg, carrier_name) ==
    LET label == nh3_bus \o SuffixStore
    IN  IF label \in Labels(st.network.stores)
        THEN st
        ELSE IF cfg = None
        THEN Raise(st, "AttributeError")
        ELSE NetworkAdd(st, "Store",
                 [label |-> label, bus |-> nh3_bus, carrier |-> carrier_name,
                  e_cyclic |-> Get(cfg[1], "e_cyclic", TRUE),
                  standing_loss |-> Get(cfg[1], "standing_loss", "0.0"),
                  capital_cost |-> Get(cfg[1], "capital_cost", "1.5e5"),
                  e_nom_extendable |-> TRUE,
                  e_nom_max |-> Get(cfg[1], "e_nom_max", "inf")])

_add_ccgt(st, base, nh3_bus, cfg, carrier_name) ==
    LET label == base \o SuffixCCGT
    IN  IF label \in Labels(st.network.links)
        THEN st
        ELSE IF cfg = None
        THEN Raise(st, "AttributeError")
        ELSE NetworkAdd(st, "Link",
                 [label |-> label, bus0 |-> nh3_bus, bus1 |-> base,
                  carrier |-> carrier_name,
                  efficiency |-> Get(cfg[1], "efficiency", "0.55"),
                  capital_cost |-> Get(cfg[1], "capital_cost", "9e5"),
                  marginal_cost |-> Get(cfg[1], "marginal_cost", "2.5"),
                  lifetime |-> Get(cfg[1], "lifetime", "25"),
                  p_nom_extendable |-> TRUE,
                  p_nom_max |-> Get(cfg[1], "p_nom_max", "inf")])

-----------------------------------------------------------------------------
(* add_green_ammonia, statement by statement.  An exception leaves the     *)
(* function at the statement that raised it; what was added before stays.  *)

\* Lines 186-189: the three carrier names, in the order of the loop.
ConfiguredCarriers(ga_cfg) ==
    LET carriers == Get(ga_cfg, "carriers", Some(EmptyDict))[1]
    IN  <<Get(carriers, "ammonia", "NH3"),
          Get(carriers, "to_store", "NH3-electrolyser"),
          Get(carriers, "to_power", "NH3-power")>>

\* Lines 191-192: for name in (...): _ensure_carrier(network, name)
RECURSIVE EnsureCarriers(_, _)
EnsureCarriers(st, names) ==
    IF names = << >>
    THEN st
    ELSE EnsureCarriers(_ensure_carrier(st, Head(names)), Tail(names))

\* Lines 194-197: the four inserts in order.
Inject(st, base, ga_cfg, names) ==
    LET bus == _add_bus(st, base, names[1])
        s1 == _add_electrolyser(bus.st, base, bus.label,
                                Get(ga_cfg, "electrolyser", Some(EmptyDict)), names[2])
        s2 == IF s1.raised # "none" THEN s1
              ELSE _add_storage(s1, bus.label,
                                Get(ga_cfg, "storage", Some(EmptyDict)), names[1])
        s3 == IF s2.raised # "none" THEN s2
              ELSE _add_ccgt(s2, base, bus.label,
                             Get(ga_cfg, "ccgt", Some(EmptyDict)), names[3])
    IN  s3

\* Variant: the flag defaults to true.
DisabledUnlessSet(ga_cfg) == ~Get(ga_cfg, "enable", TRUE)

\* Line 173: not ga_cfg.get("enable", False)
Disabled(ga_cfg) == ~Get(ga_cfg, "enable", FALSE)

Finish(st, how, base) ==
    [network |-> st.network, log |-> st.log, outcome |-> how, base_bus |-> base]

add_green_ammonia(net, cfg) ==
    LET st == Running(net)
        ga == _get_cfg(cfg)
    IN  IF ga.raised # "none" \/ ga.value = None
        THEN Finish(st, "AttributeError", None)
        ELSE
    LET ga_cfg == ga.value[1]
    IN  IF Disabled(ga_cfg)
        THEN Finish(st, "returned", None)
        ELSE
    LET country == Get(ga_cfg, "country_code", "ES")
        location == Get(ga_cfg, "location", Some(EmptyDict))
    IN  IF location = None
        THEN Finish(st, "AttributeError", None)
        ELSE
    LET found == _closest_bus(net, country,
                              GetOpt(location[1], "latitude"),
                              GetOpt(location[1], "longitude"),
                              GetOpt(location[1], "bus_substring"))
    IN  IF found.raised # "none"
        THEN Finish(st, found.raised, None)
        ELSE
    IF Get(ga_cfg, "carriers", Some(EmptyDict)) = None
        THEN Finish(st, "AttributeError", found.label)
        ELSE
    LET names == ConfiguredCarriers(ga_cfg)
        done == Inject(EnsureCarriers(st, names), found.label[1], ga_cfg, names)
    IN  Finish(done, IF done.raised = "none" THEN "ok" ELSE done.raised, found.label)

-----------------------------------------------------------------------------
(* The networks the hook is handed.  Two buses of the base network, "a" at *)
(* (0, 0) and "b" at (1.0, 1.0), each in ES or FR, and any subset of the   *)
(* four labels derived from "a" already present, with attributes the hook  *)
(* would not have given them.                                              *)

BusA == <<"a">>

BusB == <<"b">>

BusRow(label, latitude, longitude, country) ==
    [label |-> label, x |-> longitude, y |-> latitude, country |-> country,
     carrier |-> "AC", sub_network |-> ""]

ForeignBus ==
    [label |-> BusA \o SuffixNH3, x |-> 50, y |-> 50, country |-> "ES",
     carrier |-> "AC", sub_network |-> "0"]

ForeignLink(label, from, to) ==
    [label |-> label, bus0 |-> from, bus1 |-> to, carrier |-> "NH3",
     efficiency |-> "0.9", capital_cost |-> "1", marginal_cost |-> "1",
     lifetime |-> "1", p_nom_extendable |-> FALSE, p_nom_max |-> "1"]

ForeignStore ==
    [label |-> BusA \o SuffixNH3 \o SuffixStore, bus |-> BusB, carrier |-> "NH3",
     e_cyclic |-> FALSE, standing_loss |-> "0.1", capital_cost |-> "1",
     e_nom_extendable |-> FALSE, e_nom_max |-> "1"]

Derived == {"bus", "electrolyser", "store", "ccgt"}

InitialNetwork(countryA, countryB, present) ==
    [buses |-> <<BusRow(BusA, 0, 0, countryA), BusRow(BusB, 10, 10, countryB)>>
               \o (IF "bus" \in present THEN <<ForeignBus>> ELSE << >>),
     links |-> (IF "electrolyser" \in present
                THEN <<ForeignLink(BusA \o SuffixElectrolyser, BusB, BusA)>>
                ELSE << >>)
               \o (IF "ccgt" \in present
                   THEN <<ForeignLink(BusA \o SuffixCCGT, BusA, BusB)>>
                   ELSE << >>),
     stores |-> (IF "store" \in present THEN <<ForeignStore>> ELSE << >>),
     carriers |-> IF present = {} THEN <<"AC">> ELSE <<"AC", "NH3">>]

Countries == {"ES", "FR"}

-----------------------------------------------------------------------------
(* The configurations the hook is handed: every key optional, the mapping  *)
(* valued keys also null.                                                  *)

\* The dicts with no key or with `key` bound to one of `values`.
Optional(key, values) == {EmptyDict} \cup {key :> v : v \in values}

LocationValues ==
    { None,
      Some(EmptyDict),
      Some(("latitude" :> 9) @@ ("longitude" :> 9)),
      Some(("latitude" :> 5) @@ ("longitude" :> 5)),
      Some(("latitude" :> 9)),
      Some(("bus_substring" :> <<"N", "H", "3">>)),
      Some(("bus_substring" :> <<"a">>)),
      Some(("bus_substring" :> <<"z">>)),
      Some(("bus_substring" :> << >>)),
      Some(("latitude" :> 9) @@ ("longitude" :> 9)
           @@ ("bus_substring" :> <<"N", "H", "3">>)) }

CarriersValues ==
    { None,
      Some(EmptyDict),
      Some(("ammonia" :> "AC") @@ ("to_power" :> "H2")),
      Some(("ammonia" :> "NH3") @@ ("to_store" :> "NH3") @@ ("to_power" :> "NH3")) }

LinkParams ==
    ("efficiency" :> "0.7") @@ ("capital_cost" :> "8e5") @@ ("marginal_cost" :> "0.4")
    @@ ("lifetime" :> "30") @@ ("p_nom_max" :> "1000")

StoreParams ==
    ("e_cyclic" :> FALSE) @@ ("standing_loss" :> "0.01") @@ ("capital_cost" :> "2e5")
    @@ ("e_nom_max" :> "5000")

GreenAmmonia ==
    \* which buses are candidates, and which of them is chosen
    { ("enable" :> TRUE) @@ l : l \in Optional("location", LocationValues) }
    \cup
    { ("enable" :> TRUE) @@ ("country_code" :> "FR") @@ l :
          l \in Optional("location",
                         { Some(("latitude" :> 9) @@ ("longitude" :> 9)),
                           Some(("bus_substring" :> <<"N", "H", "3">>)) }) }
    \cup
    { ("enable" :> TRUE) @@ ("country_code" :> "ZZ") @@ l :
          l \in Optional("location", {None}) }
    \cup
    \* the carrier names
    { ("enable" :> TRUE) @@ ("carriers" :> v) : v \in CarriersValues }
    \cup
    \* the parameters of the three components
    { ("enable" :> TRUE) @@ ("electrolyser" :> None),
      ("enable" :> TRUE) @@ ("storage" :> None),
      ("enable" :> TRUE) @@ ("ccgt" :> None),
      ("enable" :> TRUE) @@ ("electrolyser" :> Some(LinkParams))
          @@ ("storage" :> Some(StoreParams)) @@ ("ccgt" :> Some(LinkParams)),
      ("enable" :> TRUE) @@ ("electrolyser" :> Some(("efficiency" :> "0.7")))
          @@ ("storage" :> Some(EmptyDict)) }
    \cup
    \* the gate
    { e @@ c : e \in Optional("enable", {FALSE}),
               c \in { EmptyDict,
                       ("country_code" :> "ZZ") @@ ("location" :> None)
                       @@ ("carriers" :> None) @@ ("electrolyser" :> None) } }

Configs ==
    { EmptyDict, ("custom" :> None), ("custom" :> Some(EmptyDict)),
      ("custom" :> Some(("green_ammonia" :> None))) }
    \cup { ("custom" :> Some(("green_ammonia" :> Some(ga)))) : ga \in GreenAmmonia }

\* Whether the hook gets past the gate of lines 172-174 with cfg.
Enabled(cfg) ==
    LET ga == _get_cfg(cfg)
    IN  /\ ga.raised = "none"
        /\ ga.value # None
        /\ Get(ga.value[1], "enable", FALSE)

\* Whether an enabled cfg makes line 58 narrow the candidates.
UsesSubstring(cfg) ==
    LET location == Get(_get_cfg(cfg).value[1], "location", Some(EmptyDict))
    IN  /\ location # None
        /\ GetOpt(location[1], "bus_substring") \notin {None, Some(<< >>)}

NoQuery ==
    [country_code |-> "", latitude |-> None, longitude |-> None, bus_substring |-> None]

-----------------------------------------------------------------------------
(* The hook, invoked by the workflow once per pass on the same network. *)

Init ==
    /\ \E countryA \in Countries, countryB \in Countries, present \in SUBSET Derived :
          /\ network = InitialNetwork(countryA, countryB, present)
          /\ hist = [clean |-> present = {}, nosub |-> TRUE, ok |-> TRUE]
    /\ config = EmptyDict
    /\ outcome = "none"
    /\ base_bus = None
    /\ log = << >>
    /\ pre = network
    /\ calls = 0
    /\ query = NoQuery

Invoke(cfg) ==
    /\ calls < MaxCalls
    /\ LET r == add_green_ammonia(network, cfg)
       IN  /\ network' = r.network
           /\ outcome' = r.outcome
           /\ base_bus' = r.base_bus
           /\ log' = r.log
    /\ config' = cfg
    /\ pre' = network
    /\ calls' = calls + 1
    /\ hist' = [hist EXCEPT !.nosub = @ /\ ~(Enabled(cfg) /\ UsesSubstring(cfg)),
                            !.ok = @ /\ outcome' \in {"ok", "returned"}]
    /\ UNCHANGED query

Next == \E cfg \in Configs : Invoke(cfg)

Spec == Init /\ [][Next]_vars

-----------------------------------------------------------------------------
(* _closest_bus on its own: a network of up to MaxBuses buses, then one    *)
(* call with arguments drawn from small sets.                              *)

\* "a", "ba", "bba", ...: distinct labels, some containing others' parts.
BusName(i) == [j \in 1..i |-> IF j = i THEN "a" ELSE "b"]

\* (latitude, longitude) of a bus, in tenths of a degree.
Points == {<<0, 0>>, <<10, 10>>, <<50, 50>>, <<0, 10>>}

BusFrames ==
    UNION { { [i \in 1..n |-> BusRow(BusName(i), at[i][1], at[i][2], in[i])] :
                  at \in [1..n -> Points], in \in [1..n -> Countries] } :
            n \in 0..MaxBuses }

Targets == {None, Some(9), Some(5)}

Substrings == {None, Some(<< >>), Some(<<"z">>), Some(<<"b", "a">>), Some(<<"b", "b">>)}

Queries ==
    [country_code : Countries, latitude : Targets, longitude : Targets,
     bus_substring : Substrings]

InitClosest ==
    /\ \E frame \in BusFrames :
          network = [buses |-> frame, links |-> << >>, stores |-> << >>,
                     carriers |-> <<"AC">>]
    /\ config = EmptyDict
    /\ outcome = "none"
    /\ base_bus = None
    /\ log = << >>
    /\ pre = network
    /\ calls = 0
    /\ hist = [clean |-> TRUE, nosub |-> TRUE, ok |-> TRUE]
    /\ query = NoQuery

ClosestBus(q) ==
    /\ calls = 0
    /\ LET r == _closest_bus(network, q.country_code, q.latitude, q.longitude,
                             q.bus_substring)
       IN  /\ base_bus' = r.label
           /\ outcome' = IF r.raised = "none" THEN "ok" ELSE r.raised
    /\ query' = q
    /\ calls' = 1
    /\ UNCHANGED <<network, config, log, pre, hist>>

NextClosest == \E q \in Queries : ClosestBus(q)

SpecClosest == InitClosest /\ [][NextClosest]_vars

-----------------------------------------------------------------------------
(* Properties of _closest_bus, checked under SpecClosest.                  *)

\* The rows of the requested country, by position in the bus frame.
OfCountry(q) ==
    {i \in 1..Len(network.buses) : network.buses[i].country = q.country_code}

\* Those of them whose label contains the filter.
Matching(q) ==
    {i \in OfCountry(q) : q.bus_substring # None
                          /\ Contains(network.buses[i].label, q.bus_substring[1])}

\* The rows the selection is made among.
Selection(q) ==
    IF q.bus_substring \notin {None, Some(<< >>)} /\ Matching(q) # {}
    THEN Matching(q)
    ELSE OfCountry(q)

\* Squared Euclidean distance of row i to the target of q.
SqDist(i, q) ==
    (network.buses[i].y - q.latitude[1]) * (network.buses[i].y - q.latitude[1])
  + (network.buses[i].x - q.longitude[1]) * (network.buses[i].x - q.longitude[1])

\* The row the returned label names.
Returned == {i \in 1..Len(network.buses) : Some(network.buses[i].label) = base_bus}

\* C4: with both coordinates given and a bus in the country, _closest_bus
\* returns a candidate at minimal Euclidean distance from the target and,
\* among the candidates at that distance, the first in insertion order.
C4_NearestFirst ==
    (calls = 1 /\ outcome = "ok" /\ query.latitude # None /\ query.longitude # None)
    => \E r \in Selection(query) :
          /\ Returned = {r}
          /\ \A j \in Selection(query) : SqDist(r, query) <= SqDist(j, query)
          /\ \A j \in Selection(query) :
                SqDist(j, query) = SqDist(r, query) => r <= j

\* C4 witness: ES buses at (0,0), (1,1), (5,5), target (0.9, 0.9), and the
\* bus at (1,1) returned.
C4_Witness ==
    /\ calls = 1
    /\ Len(network.buses) = 3
    /\ \A i \in 1..3 : network.buses[i].country = "ES"
    /\ <<network.buses[1].y, network.buses[1].x>> = <<0, 0>>
    /\ <<network.buses[2].y, network.buses[2].x>> = <<10, 10>>
    /\ <<network.buses[3].y, network.buses[3].x>> = <<50, 50>>
    /\ query.country_code = "ES"
    /\ query.latitude = Some(9) /\ query.longitude = Some(9)
    /\ query.bus_substring = None
    /\ base_bus = Some(network.buses[2].label)

\* C5: _closest_bus raises exactly when the country has no bus; otherwise
\* it selects among the country's buses whose label contains the filter if
\* there are any, and among all the country's buses if the filter is
\* absent, empty or matches none of them; the label returned is a bus of
\* the requested country (without coordinates, the first of the selection).
C5_SubstringFallback ==
    calls = 1
    => /\ outcome = (IF OfCountry(query) = {} THEN "ValueError" ELSE "ok")
       /\ outcome = "ok"
          => \E r \in Selection(query) :
                /\ Returned = {r}
                /\ network.buses[r].country = query.country_code
                /\ (query.latitude = None \/ query.longitude = None)
                   => \A j \in Selection(query) : r <= j

\* C5 witness: a filter that matches no bus of the country, and a bus
\* returned all the same.
C5_Witness ==
    /\ calls = 1
    /\ query.bus_substring \notin {None, Some(<< >>)}
    /\ OfCountry(query) # {}
    /\ Matching(query) = {}
    /\ outcome = "ok"
    /\ base_bus # None

-----------------------------------------------------------------------------
(* Properties of add_green_ammonia, checked under Spec.                    *)

\* The configuration as the specification reads it: custom.green_ammonia
\* with every key optional.
PathIsMappings(cfg) ==
    "custom" \in DOMAIN cfg
    => /\ cfg["custom"] # None
       /\ "green_ammonia" \in DOMAIN cfg["custom"][1]
          => cfg["custom"][1]["green_ammonia"] # None

Section(cfg) ==
    IF "custom" \notin DOMAIN cfg THEN EmptyDict
    ELSE IF "green_ammonia" \notin DOMAIN cfg["custom"][1] THEN EmptyDict
    ELSE cfg["custom"][1]["green_ammonia"][1]

EnableTrue(cfg) ==
    /\ PathIsMappings(cfg)
    /\ "enable" \in DOMAIN Section(cfg)
    /\ Section(cfg)["enable"]

EnableOff(cfg) ==
    /\ PathIsMappings(cfg)
    /\ "enable" \in DOMAIN Section(cfg) => ~Section(cfg)["enable"]

CountryCode(cfg) ==
    IF "country_code" \in DOMAIN Section(cfg) THEN Section(cfg)["country_code"] ELSE "ES"

IsMappingOrAbsent(cfg, key) ==
    key \in DOMAIN Section(cfg) => Section(cfg)[key] # None

HasBusOf(net, country) == \E i \in 1..Len(net.buses) : net.buses[i].country = country

IsPrefix(s, t) == Len(s) <= Len(t) /\ SubSeq(t, 1, Len(s)) = s

EndsWith(s, suffix) ==
    Len(s) >= Len(suffix) /\ SubSeq(s, Len(s) - Len(suffix) + 1, Len(s)) = suffix

BaseOf(label) == SubSeq(label, 1, Len(label) - Len(SuffixNH3))

\* C1: a second invocation with the configuration of the invocation just
\* made, enable true, leaves the network as the first one left it.
C1_Idempotent ==
    [][(calls >= 1 /\ calls' = calls + 1 /\ EnableTrue(config) /\ config' = config)
       => network' = network]_vars

C6_NeverAConfigError ==
    (calls > 0 /\ EnableTrue(config) /\ HasBusOf(pre, CountryCode(config)))
    => outcome = "ok"

\* C7: on a network that held no derived entity at the start, after
\* invocations that all returned normally, every "-NH3" bus has exactly one
\* inbound link, coming from its base bus, exactly one outbound link, going
\* to its base bus, and exactly one store.
C7_OneInOneOutOneStore ==
    (hist.clean /\ hist.ok)
    => \A i \in 1..Len(network.buses) :
          LET bus == network.buses[i].label
              inbound == {k \in 1..Len(network.links) : network.links[k].bus1 = bus}
              outbound == {k \in 1..Len(network.links) : network.links[k].bus0 = bus}
              attached == {k \in 1..Len(network.stores) : network.stores[k].bus = bus}
          IN  EndsWith(bus, SuffixNH3)
              => /\ Cardinality(inbound) = 1
                 /\ \A k \in inbound : network.links[k].bus0 = BaseOf(bus)
                 /\ Cardinality(outbound) = 1
                 /\ \A k \in outbound : network.links[k].bus1 = BaseOf(bus)
                 /\ Cardinality(attached) = 1

\* C8: no carrier name occurs twice in the carrier collection; whenever
\* the hook adds a bus, link or store, its carrier and all three configured
\* names were registered before (by this invocation or earlier); after a
\* completed invocation the three names are registered.
C8_CarriersFirst ==
    /\ \A i, j \in 1..Len(network.carriers) :
          network.carriers[i] = network.carriers[j] => i = j
    /\ \A i \in 1..Len(log) :
          LET before == CarrierNames(pre)
                        \cup {log[j].carrier : j \in {k \in 1..(i - 1) :
                                                          log[k].class = "Carrier"}}
          IN  log[i].class # "Carrier"
              => /\ log[i].carrier \in before
                 /\ \A k \in 1..3 : ConfiguredCarriers(Section(config))[k] \in before
    /\ outcome = "ok"
       => \A k \in 1..3 : ConfiguredCarriers(Section(config))[k] \in CarrierNames(network)

\* C8 witness: a completed invocation whose first two carrier names are
\* equal, that registered a carrier and then added a bus.
C8_Witness ==
    /\ outcome = "ok"
    /\ calls > 0
    /\ ConfiguredCarriers(Section(config))[1] = ConfiguredCarriers(Section(config))[2]
    /\ \E i, j \in 1..Len(log) :
          i < j /\ log[i].class = "Carrier" /\ log[j].class = "Bus"

C10_BaseIsOriginal ==
    (hist.clean /\ hist.nosub)
    => /\ base_bus # None => base_bus[1] \in {BusA, BusB}
       /\ \A i \in 1..Len(network.buses) :
             EndsWith(network.buses[i].label, SuffixNH3)
             => \E j \in 1..(i - 1) :
                   /\ network.buses[j].label = BaseOf(network.buses[i].label)
                   /\ network.buses[j].country = network.buses[i].country
                   /\ network.buses[j].x = network.buses[i].x
                   /\ network.buses[j].y = network.buses[i].y
       /\ \A i \in 1..Len(network.buses) :
             ~Contains(network.buses[i].label, SuffixNH3 \o SuffixNH3)

\* C10 witness: a second invocation, with target coordinates, on a network
\* where the first had injected the bus of "a", has chosen "a" again.
C10_Witness ==
    /\ hist.clean /\ hist.nosub
    /\ calls = 2
    /\ outcome = "ok"
    /\ (BusA \o SuffixNH3) \in Labels(pre.buses)
    /\ "location" \in DOMAIN Section(config)
    /\ "latitude" \in DOMAIN Section(config)["location"][1]
    /\ "longitude" \in DOMAIN Section(config)["location"][1]
    /\ base_bus = Some(BusA)

=============================================================================
